---- MODULE Spec2Model ----
(***************************************************************************)
(* Model of the webhook capture service (app.py, db_manager.py).           *)
(*                                                                         *)
(* The store is one SQLite database shared by all requests.  Each request  *)
(* has its own connection (get_db); a connection's DML statements open an  *)
(* implicit transaction that takes the database write lock at its first    *)
(* write and holds it to commit or to the rollback of close_db.  Other     *)
(* connections read the committed tables only.                             *)
(***************************************************************************)
EXTENDS Integers, Sequences, FiniteSets, TLC

\* ---------------------------------------------------------------- bounds
NumWebhooks == 2      \* identifiers uuid4 can mint in a run
MaxConn     == 2      \* ingestion requests in flight at once
MaxRequests == 2      \* ingestion requests served in a run
MaxTime     == 1      \* distinct clock readings
MaxFaults   == 1      \* exceptions raised by the store or the emitter
MaxClients  == 1      \* socket clients
MaxPerPage  == 3      \* page sizes listed
MaxPage     == 4      \* page numbers listed
MaxList     == 2      \* payload rows in a listed table

WebhookIds == 1..NumWebhooks
Conns      == 1..MaxConn
Clients    == 1..MaxClients
NoConn     == 0
NoId       == 0

\* app.config PAYLOADS_PER_PAGE
PAYLOADS_PER_PAGE == 20

\* ------------------------------------------------------------------ JSON
\* A request body is a sequence of lexical tokens.  A parsed value is a
\* record [kind, lit, items]; items holds [key, val] pairs (key "" in arrays).
WS       == " "
LitToks  == {"null", "true", "false"}
NumToks  == {"1", "2", "1e2", "100.0"}
StrToks  == {"\"a\"", "\"b\""}

JNone == [kind |-> "none", lit |-> "", items |-> <<>>]
Scalar(k, l)   == [kind |-> k, lit |-> l, items |-> <<>>]
Composite(k, its) == [kind |-> k, lit |-> "", items |-> its]
ParseFail == [ok |-> FALSE, val |-> JNone, next |-> 0]
ParseOk(v, n) == [ok |-> TRUE, val |-> v, next |-> n]

\* float('1e2') is 100.0 and repr(100.0) is '100.0'; ints keep their digits
NormNum(t) == IF t = "1e2" THEN "100.0" ELSE t

RECURSIVE SkipWs(_, _)
SkipWs(toks, i) ==
    IF i <= Len(toks) /\ toks[i] = WS THEN SkipWs(toks, i + 1) ELSE i

\* dict assignment: a repeated key keeps its first position, takes the last value
DictPut(its, k, v) ==
    IF \E n \in 1..Len(its) : its[n].key = k
    THEN [n \in 1..Len(its) |-> IF its[n].key = k THEN [key |-> k, val |-> v] ELSE its[n]]
    ELSE Append(its, [key |-> k, val |-> v])

RECURSIVE ParseValue(_, _), ParseElems(_, _, _), ParseMembers(_, _, _)
ParseValue(toks, i) ==
    IF i > Len(toks) THEN ParseFail
    ELSE LET t == toks[i] IN
         CASE t \in LitToks -> ParseOk(Scalar("lit", t), i + 1)
           [] t \in NumToks -> ParseOk(Scalar("num", NormNum(t)), i + 1)
           [] t \in StrToks -> ParseOk(Scalar("str", t), i + 1)
           [] t = "[" ->
                LET j == SkipWs(toks, i + 1) IN
                IF j <= Len(toks) /\ toks[j] = "]"
                THEN ParseOk(Composite("arr", <<>>), j + 1)
                ELSE ParseElems(toks, j, <<>>)
           [] t = "{" ->
                LET j == SkipWs(toks, i + 1) IN
                IF j <= Len(toks) /\ toks[j] = "}"
                THEN ParseOk(Composite("obj", <<>>), j + 1)
                ELSE ParseMembers(toks, j, <<>>)
           [] OTHER -> ParseFail

ParseElems(toks, i, acc) ==
    LET r == ParseValue(toks, i) IN
    IF ~r.ok THEN ParseFail
    ELSE LET j   == SkipWs(toks, r.next)
             its == Append(acc, [key |-> "", val |-> r.val])
         IN  IF j > Len(toks) THEN ParseFail
             ELSE IF toks[j] = "]" THEN ParseOk(Composite("arr", its), j + 1)
             ELSE IF toks[j] = "," THEN ParseElems(toks, SkipWs(toks, j + 1), its)
             ELSE ParseFail

ParseMembers(toks, i, acc) ==
    IF i > Len(toks) \/ toks[i] \notin StrToks THEN ParseFail
    ELSE LET c == SkipWs(toks, i + 1) IN
         IF c > Len(toks) \/ toks[c] # ":" THEN ParseFail
         ELSE LET r == ParseValue(toks, SkipWs(toks, c + 1)) IN
              IF ~r.ok THEN ParseFail
              ELSE LET j   == SkipWs(toks, r.next)
                       its == DictPut(acc, toks[i], r.val)
                   IN  IF j > Len(toks) THEN ParseFail
                       ELSE IF toks[j] = "}" THEN ParseOk(Composite("obj", its), j + 1)
                       ELSE IF toks[j] = "," THEN ParseMembers(toks, SkipWs(toks, j + 1), its)
                       ELSE ParseFail

\* json.loads: one value, surrounded by optional whitespace, then end of input
json_loads(toks) ==
    LET r == ParseValue(toks, SkipWs(toks, 1)) IN
    IF r.ok /\ SkipWs(toks, r.next) > Len(toks) THEN r ELSE ParseFail

\* json.dumps with the default separators ", " and ": "
RECURSIVE json_dumps(_), DumpItems(_, _, _)

\* str(data) in place of json.dumps(data): Python's None, not JSON's null
json_dumps_repr(v) ==
    CASE v.kind = "arr" -> <<"[">> \o DumpItems(v.items, 1, FALSE) \o <<"]">>
      [] v.kind = "obj" -> <<"{">> \o DumpItems(v.items, 1, TRUE) \o <<"}">>
      [] OTHER -> <<IF v.lit = "null" THEN "None" ELSE v.lit>>

json_dumps(v) ==
    CASE v.kind = "arr" -> <<"[">> \o DumpItems(v.items, 1, FALSE) \o <<"]">>
      [] v.kind = "obj" -> <<"{">> \o DumpItems(v.items, 1, TRUE) \o <<"}">>
      [] OTHER -> <<v.lit>>

DumpItems(its, n, keyed) ==
    IF n > Len(its) THEN <<>>
    ELSE (IF n > 1 THEN <<",", WS>> ELSE <<>>)
         \o (IF keyed THEN <<its[n].key, ":", WS>> ELSE <<>>)
         \o json_dumps(its[n].val)
         \o DumpItems(its, n + 1, keyed)

\* request.get_json(force=True): the parsed body, or BadRequest
get_json(body) == json_loads(body)

\* the request bodies posted in a run
Bodies ==
    { <<WS, "{", "\"a\"", ":", "1", ",", "\"a\"", ":", "[", "1e2", ",", "null", "]", "}">>,
      <<"this", WS, "is", WS, "not", WS, "json">>,
      <<"{", "\"a\"", ":", "1">> }

\* ------------------------------------------------------------- the store
NoTime == -1          \* SQL NULL in a timestamp column
HostUrl == "http://host"

EmptyDb == [webhooks |-> <<>>, payloads |-> {}, failures |-> {}, pseq |-> 0, fseq |-> 0]

\* the SELECT without its WHERE clause matching: a row whatever the id
get_webhook_anyrow(d, w) ==
    IF w \in DOMAIN d.webhooks THEN {d.webhooks[w]} ELSE {[id |-> w]}

\* SELECT * FROM webhooks WHERE id = ? : the rows found (none or one)
get_webhook(d, w) ==
    IF w \in DOMAIN d.webhooks THEN {d.webhooks[w]} ELSE {}

\* a connection opened without PRAGMA foreign_keys = ON: nothing is enforced
FkOk_off(d, w) == TRUE

\* FOREIGN KEY(webhook_id) REFERENCES webhooks(id), PRAGMA foreign_keys = ON
FkOk(d, w) == w \in DOMAIN d.webhooks

\* INSERT INTO webhooks (id, url, created_at); counters default 0, last_payload_at NULL
SqlInsertWebhook(d, w, t) ==
    [d EXCEPT !.webhooks =
        [x \in DOMAIN d.webhooks \cup {w} |->
            IF x = w
            THEN [id |-> w, url |-> <<HostUrl, "/webhook/", w>>, created_at |-> t,
                  success_count |-> 0, failure_count |-> 0, last_payload_at |-> NoTime]
            ELSE d.webhooks[x]]]

\* INSERT INTO webhook_payloads (webhook_id, timestamp, payload); AUTOINCREMENT id
SqlInsertPayload(d, w, t, text) ==
    [d EXCEPT !.payloads = @ \cup {[id |-> d.pseq + 1, webhook_id |-> w,
                                     timestamp |-> t, payload |-> text]},
              !.pseq = @ + 1]

\* the UPDATE writing a count computed outside the statement: SET success_count = 1
SqlUpdateSuccess_overwrite(d, w, t) ==
    IF w \in DOMAIN d.webhooks
    THEN [d EXCEPT !.webhooks[w].success_count = 1,
                   !.webhooks[w].last_payload_at = t]
    ELSE d

\* UPDATE webhooks SET success_count = success_count + 1, last_payload_at = ? WHERE id = ?
SqlUpdateSuccess(d, w, t) ==
    IF w \in DOMAIN d.webhooks
    THEN [d EXCEPT !.webhooks[w].success_count = @ + 1,
                   !.webhooks[w].last_payload_at = t]
    ELSE d

\* the failure UPDATE naming the wrong counter column
SqlUpdateFailure_wrongcol(d, w) ==
    IF w \in DOMAIN d.webhooks
    THEN [d EXCEPT !.webhooks[w].success_count = @ + 1]
    ELSE d

\* UPDATE webhooks SET failure_count = failure_count + 1 WHERE id = ?
SqlUpdateFailure(d, w) ==
    IF w \in DOMAIN d.webhooks
    THEN [d EXCEPT !.webhooks[w].failure_count = @ + 1]
    ELSE d

\* INSERT INTO webhook_failures (webhook_id, timestamp); AUTOINCREMENT id
SqlInsertFailure(d, w, t) ==
    [d EXCEPT !.failures = @ \cup {[id |-> d.fseq + 1, webhook_id |-> w, timestamp |-> t]},
              !.fseq = @ + 1]

\* the DELETE on a connection without PRAGMA foreign_keys = ON: no cascade
SqlDeleteWebhook_nocascade(d, w) ==
    [d EXCEPT !.webhooks = [x \in DOMAIN d.webhooks \ {w} |-> d.webhooks[x]]]

\* DELETE FROM webhooks WHERE id = ? ; both record tables are ON DELETE CASCADE
SqlDeleteWebhook(d, w) ==
    [d EXCEPT !.webhooks = [x \in DOMAIN d.webhooks \ {w} |-> d.webhooks[x]],
              !.payloads = {p \in @ : p.webhook_id # w},
              !.failures = {f \in @ : f.webhook_id # w}]

PayloadsOf(d, w) == {p \in d.payloads : p.webhook_id = w}
FailuresOf(d, w) == {f \in d.failures : f.webhook_id = w}

\* ------------------------------------------------------------------ state
VARIABLES
    db,        \* the committed tables
    work,      \* the tables as the connection holding the write lock sees them
    writer,    \* the connection holding the write lock, or NoConn
    pc,        \* where each ingestion request stands in webhook()
    req,       \* each request's arguments, locals and response
    now,       \* the last clock reading
    rooms,     \* socket rooms: webhook id -> the clients that joined
    inbox,     \* the new_payload events each client has received
    used,      \* the identifiers uuid4 has produced
    nreq,      \* ingestion requests served so far
    faults,    \* exceptions raised so far by the store or the emitter
    accepted,  \* per live webhook: parseable requests that passed the lookup
    resp200,   \* per live webhook: 200 responses sent
    listing    \* the last page get_payloads_for_webhook_paginated returned

vars == <<db, work, writer, pc, req, now, rooms, inbox, used, nreq, faults, accepted,
          resp200, listing>>

NoListing == [webhook_id |-> NoId, page |-> 0, per_page |-> 0,
              payloads |-> <<>>, total_pages |-> 0, current_page |-> 0]

NoResp  == [code |-> 0, status |-> "", timestamp |-> NoTime]
Resp(c, s, t) == [code |-> c, status |-> s, timestamp |-> t]

\* wid, data, ts, pid: the handler's webhook_id, data, timestamp, new_payload_id
\* (data is JNone when the body did not parse); resp: the last response of the
\* slot; pending, wrote: what the request's open transaction holds and what it
\* has committed; fault: the exception injected into the request ("" for none)
FreshReq == [wid |-> NoId, data |-> JNone, ts |-> NoTime, pid |-> 0,
             resp |-> NoResp, pending |-> {}, wrote |-> {}, fault |-> ""]

Init ==
    /\ db = EmptyDb
    /\ work = EmptyDb
    /\ writer = NoConn
    /\ pc = [r \in Conns |-> "idle"]
    /\ req = [r \in Conns |-> FreshReq]
    /\ now = 0
    /\ rooms = [w \in WebhookIds |-> {}]
    /\ inbox = [c \in Clients |-> {}]
    /\ used = {}
    /\ nreq = 0
    /\ faults = 0
    /\ accepted = [w \in WebhookIds |-> 0]
    /\ resp200 = [w \in WebhookIds |-> 0]
    /\ listing = NoListing

\* datetime.now(timezone.utc): the clock never runs backwards
ClockReadings == {t \in {now, now + 1} : t <= MaxTime}

\* the tables connection r reads: its own uncommitted changes, else the committed ones
View(r) == IF writer = r THEN work ELSE db

\* a write statement waits for the write lock
CanWrite(r) == writer \in {NoConn, r}

\* sqlite3 rollback (close_db on an open transaction, or the engine's own)
Rollback(r) ==
    IF writer = r THEN /\ work' = db
                       /\ writer' = NoConn
                  ELSE UNCHANGED <<work, writer>>

\* ------------------------------------------------------- operator routes
\* POST /generate -> DbManager.create_webhook
generate_webhook(w) ==
    /\ w \in WebhookIds \ used
    /\ \A x \in WebhookIds \ used : w <= x
    /\ writer = NoConn
    /\ \E t \in ClockReadings :
         /\ now' = t
         /\ db' = SqlInsertWebhook(db, w, t)
         /\ work' = SqlInsertWebhook(db, w, t)
    /\ used' = used \cup {w}
    /\ UNCHANGED <<listing, writer, pc, req, rooms, inbox, nreq, faults, accepted, resp200>>

\* POST /delete/<id> -> get_webhook_or_404, DbManager.delete_webhook
delete_webhook(w) ==
    /\ get_webhook(db, w) # {}
    /\ writer = NoConn
    /\ db' = SqlDeleteWebhook(db, w)
    /\ work' = SqlDeleteWebhook(db, w)
    /\ accepted' = [accepted EXCEPT ![w] = 0]
    /\ resp200' = [resp200 EXCEPT ![w] = 0]
    /\ UNCHANGED <<listing, writer, pc, req, now, rooms, inbox, used, nreq, faults>>

\* socket 'join'
on_join(c, w) ==
    /\ rooms' = IF w # NoId THEN [rooms EXCEPT ![w] = @ \cup {c}] ELSE rooms
    /\ UNCHANGED <<listing, db, work, writer, pc, req, now, inbox, used, nreq, faults, accepted, resp200>>

\* ------------------------------------------ POST /webhook/<id> : webhook()
\* Between its first write and its commit a connection holds the write lock,
\* and what it has written is invisible to every other connection: the
\* statements of one DbManager method are taken as one step, and an exception
\* raised by one of them is a step that stops the method at that statement.

\* payload_data of app.py line 198
Event(r) == [id |-> req[r].pid, timestamp |-> req[r].ts, payload |-> json_dumps(req[r].data)]

\* socketio.emit without room=: a broadcast
Emit_broadcast(w, ev) == [c \in Clients |-> inbox[c] \cup {ev}]

\* socketio.emit('new_payload', ev, room=w): the inboxes afterwards
Emit(w, ev) == [c \in Clients |-> IF c \in rooms[w] THEN inbox[c] \cup {ev} ELSE inbox[c]]

\* the response leaves; the handler's locals go out of scope
Finished(r, code, status, t) == [FreshReq EXCEPT !.resp = Resp(code, status, t)]

\* a request is served on a fresh connection: the lowest free slot names it
FreeConn(r) == pc[r] = "idle" /\ \A q \in Conns : pc[q] = "idle" => r <= q

\* the existence check, then request.get_json(force=True)
webhook_lookup(r, w, b) ==
    /\ FreeConn(r)
    /\ nreq < MaxRequests
    /\ nreq' = nreq + 1
    /\ LET found == get_webhook(db, w) # {}
           pj    == get_json(b)
       IN  /\ req' = [req EXCEPT ![r] =
                         IF found
                         THEN [FreshReq EXCEPT !.wid = w, !.data = pj.val]
                         ELSE [FreshReq EXCEPT !.wid = w, !.resp = Resp(404, "", NoTime)]]
           /\ pc' = [pc EXCEPT ![r] = IF ~found THEN "idle"
                                      ELSE IF pj.ok THEN "s_begin" ELSE "f_begin"]
           /\ accepted' = IF found /\ pj.ok THEN [accepted EXCEPT ![w] = @ + 1] ELSE accepted
    /\ UNCHANGED <<listing, db, work, writer, now, rooms, inbox, used, faults, resp200>>

\* record_successful_payload: timestamp = datetime.now(timezone.utc).isoformat()
record_success_begin(r) ==
    /\ pc[r] = "s_begin"
    /\ \E t \in ClockReadings :
         /\ now' = t
         /\ req' = [req EXCEPT ![r].ts = t]
    /\ pc' = [pc EXCEPT ![r] = "s_tx"]
    /\ UNCHANGED <<listing, db, work, writer, rooms, inbox, used, nreq, faults, accepted, resp200>>

\* the tables after the INSERT of record_successful_payload
AfterInsert(r) ==
    SqlInsertPayload(View(r), req[r].wid, req[r].ts, json_dumps(req[r].data))

\* the tables after the INSERT and the UPDATE of record_successful_payload
AfterUpdate(r) == SqlUpdateSuccess(AfterInsert(r), req[r].wid, req[r].ts)

\* record_successful_payload: INSERT, UPDATE, commit; the INSERT raises
\* IntegrityError when the webhook row is gone, and the transaction stays open
record_successful_payload(r) ==
    /\ pc[r] = "s_tx"
    /\ CanWrite(r)
    /\ IF FkOk(View(r), req[r].wid)
       THEN /\ db' = AfterUpdate(r)
            /\ work' = AfterUpdate(r)
            /\ writer' = NoConn
            /\ req' = [req EXCEPT ![r].pid = View(r).pseq + 1,
                                  ![r].wrote = @ \cup req[r].pending
                                       \cup {"payload", "success_count", "last_payload_at"},
                                  ![r].pending = {}]
            /\ pc' = [pc EXCEPT ![r] = "emit"]
       ELSE /\ db' = db
            /\ work' = View(r)
            /\ writer' = r
            /\ req' = req
            /\ pc' = [pc EXCEPT ![r] = "f_begin"]
    /\ UNCHANGED <<listing, now, rooms, inbox, used, nreq, faults, accepted, resp200>>

\* a statement of record_successful_payload raises sqlite3.Error (database is
\* locked, disk I/O error, ...).  The failing statement has no effect; the
\* statements before it stay pending in the open transaction unless the engine
\* rolled the transaction back.  webhook() catches the exception.
storage_error(r, at, rolledBack) ==
    /\ pc[r] = "s_tx"
    /\ faults < MaxFaults
    /\ faults' = faults + 1
    /\ at \in {"insert", "update", "commit"}
    /\ at # "insert" => CanWrite(r) /\ FkOk(View(r), req[r].wid)
    /\ IF at = "insert" \/ rolledBack
       THEN /\ Rollback(r)
            /\ req' = [req EXCEPT ![r].fault = "storage", ![r].pending = {}]
       ELSE /\ writer' = r
            /\ work' = IF at = "update" THEN AfterInsert(r) ELSE AfterUpdate(r)
            /\ req' = [req EXCEPT
                  ![r].fault = "storage",
                  ![r].pid = View(r).pseq + 1,
                  ![r].pending = IF at = "update" THEN {"payload"}
                                 ELSE {"payload", "success_count", "last_payload_at"}]
    /\ pc' = [pc EXCEPT ![r] = "f_begin"]
    /\ UNCHANGED <<listing, db, now, rooms, inbox, used, nreq, accepted, resp200>>

\* socketio.emit to the webhook's room, then the 200 response
webhook_emit(r) ==
    /\ pc[r] = "emit"
    /\ inbox' = Emit(req[r].wid, Event(r))
    /\ req' = [req EXCEPT ![r] = Finished(r, 200, "received", req[r].ts)]
    /\ pc' = [pc EXCEPT ![r] = "idle"]
    /\ resp200' = [resp200 EXCEPT ![req[r].wid] = @ + 1]
    /\ UNCHANGED <<listing, db, work, writer, now, rooms, used, nreq, faults, accepted>>

\* socketio.emit raises after the success commit; webhook() catches the exception
emit_error(r) ==
    /\ pc[r] = "emit"
    /\ faults < MaxFaults
    /\ faults' = faults + 1
    /\ req' = [req EXCEPT ![r].fault = "emit"]
    /\ pc' = [pc EXCEPT ![r] = "f_begin"]
    /\ UNCHANGED <<listing, db, work, writer, now, rooms, inbox, used, nreq, accepted, resp200>>

\* record_failed_payload: timestamp = datetime.now(timezone.utc).isoformat()
record_failure_begin(r) ==
    /\ pc[r] = "f_begin"
    /\ \E t \in ClockReadings :
         /\ now' = t
         /\ req' = [req EXCEPT ![r].ts = t]
    /\ pc' = [pc EXCEPT ![r] = "f_tx"]
    /\ UNCHANGED <<listing, db, work, writer, rooms, inbox, used, nreq, faults, accepted, resp200>>

\* the tables after the UPDATE and the INSERT of record_failed_payload
AfterFailure(r) ==
    SqlInsertFailure(SqlUpdateFailure(View(r), req[r].wid), req[r].wid, req[r].ts)

\* record_failed_payload: UPDATE, INSERT, commit, then the 400 response.  The
\* commit is the connection's: it takes along whatever the success path left
\* pending.  When the webhook row is gone the INSERT raises IntegrityError,
\* nothing catches it, the response is a 500 and close_db rolls back.
record_failed_payload(r) ==
    /\ pc[r] = "f_tx"
    /\ CanWrite(r)
    /\ IF FkOk(View(r), req[r].wid)
       THEN /\ db' = AfterFailure(r)
            /\ work' = AfterFailure(r)
            /\ writer' = NoConn
            /\ req' = [req EXCEPT ![r] = Finished(r, 400, "", NoTime)]
       ELSE /\ db' = db
            /\ work' = db
            /\ writer' = NoConn
            /\ req' = [req EXCEPT ![r] = Finished(r, 500, "", NoTime)]
    /\ pc' = [pc EXCEPT ![r] = "idle"]
    /\ UNCHANGED <<listing, now, rooms, inbox, used, nreq, faults, accepted, resp200>>

\* a statement of record_failed_payload raises sqlite3.Error: nothing catches it,
\* the response is a 500 and close_db rolls the open transaction back
failure_storage_error(r) ==
    /\ pc[r] = "f_tx"
    /\ faults < MaxFaults
    /\ faults' = faults + 1
    /\ Rollback(r)
    /\ req' = [req EXCEPT ![r] = Finished(r, 500, "", NoTime)]
    /\ pc' = [pc EXCEPT ![r] = "idle"]
    /\ UNCHANGED <<listing, db, now, rooms, inbox, used, nreq, accepted, resp200>>

\* ---------------------------------------------------------- specification
Next ==
    \/ \E w \in WebhookIds : generate_webhook(w)
    \/ \E w \in WebhookIds : delete_webhook(w)
    \/ \E c \in Clients, w \in WebhookIds \cup {NoId} : on_join(c, w)
    \/ \E r \in Conns, w \in WebhookIds, b \in Bodies : webhook_lookup(r, w, b)
    \/ \E r \in Conns : record_success_begin(r)
    \/ \E r \in Conns : record_successful_payload(r)
    \/ \E r \in Conns, at \in {"insert", "update", "commit"}, rb \in BOOLEAN :
          storage_error(r, at, rb)
    \/ \E r \in Conns : webhook_emit(r)
    \/ \E r \in Conns : emit_error(r)
    \/ \E r \in Conns : record_failure_begin(r)
    \/ \E r \in Conns : record_failed_payload(r)
    \/ \E r \in Conns : failure_storage_error(r)

Spec == Init /\ [][Next]_vars

\* ------------------------------------------------------- the read routes
\* ORDER BY timestamp DESC: SQLite returns rows of equal timestamp in rowid order
RECURSIVE OrderByTimestampDesc(_)
OrderByTimestampDesc(rows) ==
    IF rows = {} THEN <<>>
    ELSE LET first == CHOOSE p \in rows : \A q \in rows :
                          \/ p.timestamp > q.timestamp
                          \/ p.timestamp = q.timestamp /\ p.id <= q.id
         IN  <<first>> \o OrderByTimestampDesc(rows \ {first})

\* LIMIT ? OFFSET ? : a negative offset counts as 0, a negative limit as none
LimitOffset(rows, limit, offset) ==
    LET off == IF offset < 0 THEN 0 ELSE offset
        lim == IF limit < 0 THEN Len(rows) ELSE limit
    IN  [k \in 1..(IF Len(rows) - off < lim
                   THEN (IF Len(rows) - off < 0 THEN 0 ELSE Len(rows) - off)
                   ELSE lim) |-> rows[off + k]]

\* math.ceil(total / per_page)
CeilDiv(total, per_page) ==
    IF total % per_page = 0 THEN total \div per_page ELSE (total \div per_page) + 1

\* the offset of a page numbered from 0
PageOffset_fromzero(page, per_page) == page * per_page

\* offset = (page - 1) * per_page
PageOffset(page, per_page) == (page - 1) * per_page

\* DbManager.get_payloads_for_webhook_paginated
get_payloads_for_webhook_paginated(d, w, page, per_page) ==
    LET total_payloads == Cardinality(PayloadsOf(d, w))
        ordered == OrderByTimestampDesc(PayloadsOf(d, w))
        columns == [k \in 1..Len(ordered) |->
                       [id |-> ordered[k].id, timestamp |-> ordered[k].timestamp,
                        payload |-> ordered[k].payload]]
    IN  [payloads     |-> LimitOffset(columns, per_page, PageOffset(page, per_page)),
         total_pages  |-> CeilDiv(total_payloads, per_page),
         current_page |-> page]

\* DbManager.get_all_payloads_for_webhook
get_all_payloads_for_webhook(d, w) ==
    LET ordered == OrderByTimestampDesc(PayloadsOf(d, w))
    IN  [k \in 1..Len(ordered) |->
            [timestamp |-> ordered[k].timestamp, payload |-> ordered[k].payload]]

\* GET /download/<id>: parsed_data of download_webhook_data
download_webhook_data(d, w) ==
    LET rows == get_all_payloads_for_webhook(d, w)
    IN  [k \in 1..Len(rows) |->
            [timestamp |-> rows[k].timestamp, payload |-> json_loads(rows[k].payload).val]]

PageSizes == (1..MaxPerPage) \cup {PAYLOADS_PER_PAGE}
Pages     == 1..MaxPage

\* DbManager.get_payloads_for_webhook_paginated called with any page size
list_payloads(w, page, per_page) ==
    /\ listing' = [webhook_id |-> w, page |-> page, per_page |-> per_page]
                  @@ get_payloads_for_webhook_paginated(db, w, page, per_page)
    /\ UNCHANGED <<db, work, writer, pc, req, now, rooms, inbox, used, nreq, faults,
                   accepted, resp200>>

\* GET /data/<id>?page=N -> get_webhook_or_404, then the configured page size
show_webhook_data(w, page) ==
    /\ get_webhook(db, w) # {}
    /\ list_payloads(w, page, PAYLOADS_PER_PAGE)

\* The tables after the successful ingestions rows[1], rows[2], ... (each a
\* pair <<webhook, timestamp>>) on top of the tables d
ValidBody == CHOOSE b \in Bodies : get_json(b).ok

RECURSIVE Ingested(_, _, _)
Ingested(d, rows, k) ==
    IF d.pseq < k - 1 \/ k > Len(rows) THEN d
    ELSE Ingested(SqlUpdateSuccess(
                      SqlInsertPayload(d, rows[k][1], rows[k][2],
                                       json_dumps(get_json(ValidBody).val)),
                      rows[k][1], rows[k][2]),
                  rows, k + 1)

RECURSIVE Generated(_, _)
Generated(d, w) ==
    IF w > NumWebhooks THEN d ELSE Generated(SqlInsertWebhook(d, w, 0), w + 1)

\* the example of the pagination contract: 45 payloads on one webhook
ManyRows == [k \in 1..45 |-> <<1, k % (MaxTime + 1)>>]

ListedRows ==
    UNION {[1..n -> WebhookIds \X (0..MaxTime)] : n \in 0..MaxList} \cup {ManyRows}

CountOf(rows, w) == Cardinality({k \in 1..Len(rows) : rows[k][1] = w})

\* a store that has served some ingestions, all requests answered
InitList ==
    /\ \E rows \in ListedRows :
         /\ db = Ingested(Generated(EmptyDb, 1), rows, 1)
         /\ work = Ingested(Generated(EmptyDb, 1), rows, 1)
         /\ nreq = Len(rows)
         /\ accepted = [w \in WebhookIds |-> CountOf(rows, w)]
         /\ resp200 = [w \in WebhookIds |-> CountOf(rows, w)]
    /\ writer = NoConn
    /\ pc = [r \in Conns |-> "idle"]
    /\ req = [r \in Conns |-> FreshReq]
    /\ now = MaxTime
    /\ rooms = [w \in WebhookIds |-> {}]
    /\ inbox = [c \in Clients |-> {}]
    /\ used = WebhookIds
    /\ faults = 0
    /\ listing = NoListing

NextList ==
    \/ \E w \in WebhookIds, page \in Pages, s \in PageSizes : list_payloads(w, page, s)
    \/ \E w \in WebhookIds, page \in Pages : show_webhook_data(w, page)

SpecList == InitList /\ [][NextList]_vars

\* ================================================================ claims
Quiescent == \A r \in Conns : pc[r] = "idle"

\* r takes the step that answers its request
Answers(r) == pc[r] # "idle" /\ pc'[r] = "idle"

\* C1: when the N parseable ingestions accepted for a live endpoint have all
\* been answered, and no statement raised, all N were answered 200, the
\* endpoint's success_count is N and it owns exactly N Payload Records,
\* whatever the interleaving of the requests.
C1_NoLostUpdate ==
    \A w \in DOMAIN db.webhooks :
        (Quiescent /\ faults = 0) =>
            /\ resp200[w] = accepted[w]
            /\ db.webhooks[w].success_count = accepted[w]
            /\ Cardinality(PayloadsOf(db, w)) = accepted[w]

\* two overlapping ingestions to one endpoint, both answered 200
C1_Witness ==
    /\ Quiescent /\ faults = 0
    /\ req[1].resp.code = 200 /\ req[2].resp.code = 200
    /\ \E w \in DOMAIN db.webhooks :
          accepted[w] = 2 /\ db.webhooks[w].success_count = 2

\* C2: when the failure path of a request takes effect (its commit, answered
\* 400), no change of the success path of the same request has been committed
\* or is committed with it.
C2_ExactlyOnePath ==
    [][\A r \in Conns :
          (pc[r] = "f_tx" /\ req'[r].resp.code = 400) =>
              (req[r].wrote = {} /\ req[r].pending = {})]_vars

\* C3: every commit of an ingestion request adds as many Payload Records to
\* its endpoint as it adds to success_count, sets last_payload_at with them,
\* and the failure path's commit adds none.
C3_RecordSuccessAtomic ==
    [][\A r \in Conns :
          (pc[r] \in {"s_tx", "f_tx"} /\ pc'[r] # pc[r] /\ db' # db) =>
              LET E    == req[r].wid
                  newp == PayloadsOf(db', E) \ PayloadsOf(db, E)
                  inc  == db'.webhooks[E].success_count - db.webhooks[E].success_count
              IN  /\ Cardinality(newp) = inc
                  /\ \A p \in newp : db'.webhooks[E].last_payload_at = p.timestamp
                  /\ pc[r] = "f_tx" => (newp = {} /\ inc = 0)]_vars

\* C4: an ingestion with an unparseable body to an existing endpoint, no
\* statement raising, is answered 400, adds exactly 1 to failure_count and one
\* Failure Record, and leaves success_count and the Payload Records alone.
C4_BadBodyCountsOneFailure ==
    [][\A r \in Conns :
          (pc[r] = "f_tx" /\ Answers(r) /\ req[r].data = JNone /\ faults' = faults
             /\ req[r].wid \in DOMAIN db.webhooks) =>
              LET E == req[r].wid IN
              /\ req'[r].resp.code = 400
              /\ E \in DOMAIN db'.webhooks
              /\ db'.webhooks[E].failure_count = db.webhooks[E].failure_count + 1
              /\ FailuresOf(db, E) \subseteq FailuresOf(db', E)
              /\ Cardinality(FailuresOf(db', E) \ FailuresOf(db, E)) = 1
              /\ db'.webhooks[E].success_count = db.webhooks[E].success_count
              /\ PayloadsOf(db', E) = PayloadsOf(db, E)]_vars

\* an unparseable body was answered 400 and counted once
C4_Witness ==
    /\ faults = 0
    /\ \E r \in Conns : pc[r] = "idle" /\ req[r].resp.code = 400
    /\ \E w \in DOMAIN db.webhooks :
          /\ db.webhooks[w].failure_count = 1
          /\ db.webhooks[w].success_count = 0
          /\ Cardinality(FailuresOf(db, w)) = 1

\* C5: the step that removes an endpoint row removes every Payload and Failure
\* Record of that endpoint with it, leaves every other endpoint and its records
\* as they were, and get_webhook then finds nothing; delete_webhook removes the
\* row of every existing endpoint.
C5_DeleteCascades ==
    [][/\ \A w \in DOMAIN db.webhooks : get_webhook(SqlDeleteWebhook(db, w), w) = {}
       /\ \A w \in WebhookIds :
            (w \in DOMAIN db.webhooks /\ w \notin DOMAIN db'.webhooks) =>
                /\ get_webhook(db', w) = {}
                /\ PayloadsOf(db', w) = {}
                /\ FailuresOf(db', w) = {}
                /\ \A x \in DOMAIN db.webhooks \ {w} :
                      /\ x \in DOMAIN db'.webhooks
                      /\ db'.webhooks[x] = db.webhooks[x]
                      /\ PayloadsOf(db', x) = PayloadsOf(db, x)
                      /\ FailuresOf(db', x) = FailuresOf(db, x)]_vars

\* an endpoint that owned a payload and a failure was deleted, another lives on
C5_Witness ==
    /\ \E w \in used : w \notin DOMAIN db.webhooks
    /\ \E x \in DOMAIN db.webhooks : PayloadsOf(db, x) # {}
    /\ db.pseq > Cardinality(db.payloads)
    /\ db.fseq > Cardinality(db.failures)

\* C6: a request whose identifier is absent at the lookup is answered 404 in
\* that step, goes no further, and the step changes neither the tables, nor the
\* write lock, nor any room or inbox.
C6_NotFoundNoWrites ==
    [][\A r \in Conns :
          (FreeConn(r) /\ nreq' = nreq + 1 /\ req'[r].wid \notin DOMAIN db.webhooks) =>
              /\ req'[r].resp.code = 404
              /\ pc'[r] = "idle"
              /\ UNCHANGED <<db, work, writer, rooms, inbox>>]_vars

\* a request to an absent identifier was answered 404 while records exist
C6_Witness ==
    /\ \E r \in Conns : /\ pc[r] = "idle" /\ req[r].resp.code = 404
                        /\ req[r].wid \notin DOMAIN db.webhooks
    /\ db.payloads # {}

\* bodies for the dumps/loads round trip
SampleBodies ==
    Bodies \cup { <<"null">>, <<"1e2">>, <<"[", "]">>, <<"{", WS, "}">>,
                  <<"[", "1", ",", "\"a\"", ",", "{", "\"b\"", ":", "true", "}", "]">>,
                  <<"[", "1", ",", "]">>, <<"1", WS, "2">> }

\* C7: the commit of a successful ingestion of v to E adds exactly 1 to E's
\* success_count and exactly one Payload Record, owned by E, whose body parses
\* back to v and whose timestamp is the request's; the request is then
\* answered 200 "received" with that timestamp, and E's export holds an entry
\* with that timestamp and payload v.  Whenever a body is accepted, every
\* value a sample body parses to survives dumps then loads.
C7_SuccessRoundTrip ==
    [][\A r \in Conns :
            LET E == req[r].wid
                v == req[r].data
            IN
            /\ (pc[r] = "idle" /\ pc'[r] = "s_begin") =>
                  \A b \in SampleBodies :
                      LET parsed == get_json(b)
                          back   == json_loads(json_dumps(parsed.val))
                      IN  parsed.ok => (back.ok /\ back.val = parsed.val)
            /\ (pc[r] = "s_tx" /\ pc'[r] = "emit") =>
                  /\ db'.webhooks[E].success_count = db.webhooks[E].success_count + 1
                  /\ db.payloads \subseteq db'.payloads
                  /\ Cardinality(db'.payloads \ db.payloads) = 1
                  /\ \A p \in db'.payloads \ db.payloads :
                        /\ p.webhook_id = E
                        /\ p.id = req'[r].pid
                        /\ p.timestamp = req'[r].ts
                        /\ json_loads(p.payload).ok
                        /\ json_loads(p.payload).val = v
            /\ (pc[r] = "emit" /\ pc'[r] = "idle") =>
                  /\ req'[r].resp.code = 200
                  /\ req'[r].resp.status = "received"
                  /\ E \in DOMAIN db'.webhooks =>
                        /\ \E p \in PayloadsOf(db', E) :
                              p.id = req[r].pid /\ p.timestamp = req'[r].resp.timestamp
                        /\ \E k \in DOMAIN download_webhook_data(db', E) :
                              download_webhook_data(db', E)[k] =
                                  [timestamp |-> req'[r].resp.timestamp, payload |-> v]]_vars

\* a request was answered 200 and its endpoint's export holds the parsed body
C7_Witness ==
    /\ \E r \in Conns : pc[r] = "idle" /\ req[r].resp.code = 200
    /\ \E w \in DOMAIN db.webhooks :
          /\ db.webhooks[w].success_count = 1
          /\ \E k \in DOMAIN download_webhook_data(db, w) :
                download_webhook_data(db, w)[k].payload = get_json(ValidBody).val

\* C8: the step that publishes request r's new_payload event adds it to the
\* inbox of every client in the room of r's endpoint at that moment and to no
\* other inbox; the event carries the stored record's id, timestamp and body;
\* no other step, a later join included, changes any inbox.
C8_FanoutToRoomOnly ==
    [][/\ \A r \in Conns :
            (pc[r] = "emit" /\ pc'[r] = "idle") =>
                /\ \A c \in Clients :
                      inbox'[c] = IF c \in rooms[req[r].wid]
                                  THEN inbox[c] \cup {Event(r)} ELSE inbox[c]
                /\ \A p \in db.payloads :
                      p.id = Event(r).id =>
                          /\ p.webhook_id = req[r].wid
                          /\ p.timestamp = Event(r).timestamp
                          /\ p.payload = Event(r).payload
       /\ (\A r \in Conns : ~(pc[r] = "emit" /\ pc'[r] = "idle")) => inbox' = inbox]_vars

\* a client holds an event of its room, and a stored payload it was not sent
C8_Witness ==
    \E c \in Clients :
        /\ inbox[c] # {}
        /\ \E w \in WebhookIds : c \in rooms[w] /\ \E p \in PayloadsOf(db, w) :
              [id |-> p.id, timestamp |-> p.timestamp, payload |-> p.payload] \in inbox[c]
        /\ \E p \in db.payloads :
              [id |-> p.id, timestamp |-> p.timestamp, payload |-> p.payload] \notin inbox[c]

\* C9: a request in which a statement recording the payload raised a storage
\* error is answered with a 5xx status.
C9_StorageErrorIs5xx ==
    [][\A r \in Conns :
          (Answers(r) /\ req[r].fault = "storage") =>
              req'[r].resp.code \in 500..599]_vars

Min(a, b) == IF a < b THEN a ELSE b
Max(a, b) == IF a < b THEN b ELSE a

\* C10: a page of size s >= 1, number p >= 1, of an endpoint with n Payload
\* Records holds min(s, max(0, n - (p-1)*s)) rows, the rows at positions
\* (p-1)*s+1 .. p*s of the timestamp-descending listing of all its payloads;
\* total_pages is the least number of pages of size s that hold n rows, and a
\* page past it is empty.
C10_Pagination ==
    listing.webhook_id # NoId =>
        LET w   == listing.webhook_id
            p   == listing.page
            s   == listing.per_page
            n   == Cardinality(PayloadsOf(db, w))
            all == get_all_payloads_for_webhook(db, w)
            len == Min(s, Max(0, n - (p - 1) * s))
        IN  /\ Len(listing.payloads) = len
            /\ Len(all) = n
            /\ \A i \in 1..n, j \in 1..n : i < j => all[i].timestamp >= all[j].timestamp
            /\ \A k \in 1..len :
                  /\ listing.payloads[k].timestamp = all[(p - 1) * s + k].timestamp
                  /\ listing.payloads[k].payload = all[(p - 1) * s + k].payload
                  /\ \E q \in PayloadsOf(db, w) :
                        /\ q.id = listing.payloads[k].id
                        /\ q.timestamp = listing.payloads[k].timestamp
            /\ \A k \in 1..len, m \in 1..len :
                  k # m => listing.payloads[k].id # listing.payloads[m].id
            /\ listing.total_pages * s >= n
            /\ (listing.total_pages - 1) * s < n
            /\ listing.total_pages >= 0
            /\ p > listing.total_pages => listing.payloads = <<>>
            /\ listing.current_page = p

\* page 3 of 45 payloads at 20 a page: the 5 oldest
C10_Witness ==
    /\ listing.webhook_id # NoId
    /\ Cardinality(PayloadsOf(db, listing.webhook_id)) = 45
    /\ listing.per_page = PAYLOADS_PER_PAGE
    /\ listing.page = 3
    /\ Len(listing.payloads) = 5
    /\ listing.total_pages = 3

\* every record of the tables d is owned by a webhook row of d
Owned(d) ==
    /\ \A p \in d.payloads : p.webhook_id \in DOMAIN d.webhooks
    /\ \A f \in d.failures : f.webhook_id \in DOMAIN d.webhooks

\* C11: whatever the interleaving of ingestions (parseable or not) with the
\* delete of their endpoint, the delete committing between the existence check
\* and the write included, every committed state has no Payload or Failure
\* Record whose endpoint is absent, and no step brings back the row of an
\* endpoint that was deleted.
C11_ReferentialIntegrity ==
    /\ []Owned(db)
    /\ [][\A w \in used \ DOMAIN db.webhooks : w \notin DOMAIN db'.webhooks]_vars

\* no statement ever raised on its own; the endpoint of two requests was deleted
\* after their existence checks: the unparseable one has ended in a 500, the
\* parseable one had its INSERT refused and stands before the failure write
C11_Witness ==
    /\ faults = 0
    /\ \E r, q \in Conns :
          /\ r # q
          /\ pc[q] = "idle" /\ req[q].resp.code = 500
          /\ pc[r] = "f_tx" /\ writer = r
          /\ req[r].data # JNone
          /\ req[r].wid \in used \ DOMAIN db.webhooks
          /\ req[r].pending = {} /\ req[r].wrote = {}

\* C12: in every committed state each existing endpoint's success_count is the
\* number of Payload Records it owns and its failure_count the number of
\* Failure Records it owns.
C12_CountersMatchRecords ==
    \A w \in DOMAIN db.webhooks :
        /\ db.webhooks[w].success_count = Cardinality(PayloadsOf(db, w))
        /\ db.webhooks[w].failure_count = Cardinality(FailuresOf(db, w))

\* C13: in every committed state each endpoint's last_payload_at is NULL
\* exactly when the endpoint owns no Payload Record, and otherwise is the
\* greatest timestamp stored in its Payload Records.
C13_LastPayloadAtIsMax ==
    \A w \in DOMAIN db.webhooks :
        LET last == db.webhooks[w].last_payload_at
            own  == PayloadsOf(db, w)
        IN  /\ last = NoTime <=> own = {}
            /\ own # {} =>
                  /\ \E p \in own : p.timestamp = last
                  /\ \A p \in own : p.timestamp <= last

====
